---- MODULE Spec2Model ----
(***************************************************************************)
(* Model of modal_app.py: the evaluation of the `image` method chain at    *)
(* module load, and the bootstrap routine web() run by one or more         *)
(* invocations on one instance (one process, one filesystem).              *)
(***************************************************************************)
EXTENDS Integers, Sequences, FiniteSets, TLC

\* Number of invocations of web() on the instance.
NumInvocations == 2

Invocations == 1..NumInvocations

(***************************************************************************)
(* Paths are sequences of components; a relative path is joined to the     *)
(* working directory.                                                      *)
(***************************************************************************)
Root == <<"root">>
AppDir == <<"root", "app">>
CheckpointSrc == <<"root", "checkpoints">>
RelCheckpoints == <<"checkpoints">>
AliasPath == <<"root", "app", "checkpoints">>

Paths == {Root, AppDir, CheckpointSrc, AliasPath}

Join(dir, rel) == dir \o rel

Absent == [kind |-> "absent", target |-> <<>>]
Dir == [kind |-> "dir", target |-> <<>>]
Link(t) == [kind |-> "link", target |-> t]

\* os.path.lexists: an entry of any kind is at p (links are not followed).
LExists(f, p) == p \in DOMAIN f /\ f[p].kind # "absent"

\* os.path.exists: follows symbolic links; a dangling or looping link is
\* reported as not existing.
RECURSIVE Follow(_, _, _)
Follow(f, p, visited) ==
    IF p \notin DOMAIN f \/ p \in visited THEN FALSE
    ELSE IF f[p].kind = "absent" THEN FALSE
    ELSE IF f[p].kind = "dir" THEN TRUE
    ELSE Follow(f, f[p].target, visited \cup {p})

os_path_exists(f, dir, rel) == Follow(f, Join(dir, rel), {})


(***************************************************************************)
(* The image definition: the chain of method calls, in program order.      *)
(***************************************************************************)
\* Variant: the source snapshot taken before the downloads.
ImageChainSnapshotBeforeDownloads ==
    << [op |-> "from_registry", arg |-> "nvidia/cuda:12.8.1-devel-ubuntu22.04"],
       [op |-> "entrypoint", arg |-> ""],
       [op |-> "apt_install", arg |-> "ffmpeg git build-essential"],
       [op |-> "uv_sync", arg |-> "frozen"],
       [op |-> "pip_install", arg |-> "hf-transfer"],
       [op |-> "pip_install", arg |-> "flash-attn"],
       [op |-> "env", arg |-> "HF_HUB_ENABLE_HF_TRANSFER"],
       [op |-> "add_local_dir", arg |-> "/root/app"],
       [op |-> "run_commands", arg |-> "Wan2.1-T2V-1.3B"],
       [op |-> "run_commands", arg |-> "Wan2.1-T2V-14B"],
       [op |-> "run_commands", arg |-> "krea-realtime-video"] >>

ImageChain ==
    << [op |-> "from_registry", arg |-> "nvidia/cuda:12.8.1-devel-ubuntu22.04"],
       [op |-> "entrypoint", arg |-> ""],
       [op |-> "apt_install", arg |-> "ffmpeg git build-essential"],
       [op |-> "uv_sync", arg |-> "frozen"],
       [op |-> "pip_install", arg |-> "hf-transfer"],
       [op |-> "pip_install", arg |-> "flash-attn"],
       [op |-> "env", arg |-> "HF_HUB_ENABLE_HF_TRANSFER"],
       [op |-> "run_commands", arg |-> "Wan2.1-T2V-1.3B"],
       [op |-> "run_commands", arg |-> "Wan2.1-T2V-14B"],
       [op |-> "run_commands", arg |-> "krea-realtime-video"],
       [op |-> "add_local_dir", arg |-> "/root/app"] >>

(***************************************************************************)
(* The bootstrap routine's fixed values.                                   *)
(***************************************************************************)
EnvKeys == {"MODEL_FOLDER", "CONFIG", "CUDA_VISIBLE_DEVICES", "DO_COMPILE"}
Unset == "<unset>"

cmd == << "uvicorn", "release_server:app", "--host", "0.0.0.0",
          "--port", "8000", "--log-level", "info" >>

NoFault == [exc |-> "none", at |-> "none"]

VARIABLES
    imgPc,        \* number of calls of the image chain evaluated so far
    layers,       \* the image built so far: the sequence of its layers
    fs,           \* the instance filesystem: path -> entry
    uvicorn,      \* whether the uvicorn executable is on the PATH
    cwd,          \* the process working directory
    environ,      \* os.environ
    pc,           \* position of each invocation of web()
    fault,        \* the uncaught exception that ended an invocation
    sawEntry,     \* local: the result of os.path.exists in each invocation
    children,     \* the spawned server processes, in spawn order
    atCall        \* what each invocation found when it was called

vars == << imgPc, layers, fs, uvicorn, cwd, environ, pc, fault, sawEntry,
           children, atCall >>

imgVars == << imgPc, layers >>
webVars == << fs, uvicorn, cwd, environ, pc, fault, sawEntry, children, atCall >>

\* The filesystem of a fresh instance: the application root is there and
\* has no `checkpoints` entry (the snapshot ignores it); the checkpoint
\* download directory may or may not be there.
InitFs(src) ==
    [p \in Paths |->
        IF p = CheckpointSrc THEN (IF src THEN Dir ELSE Absent)
        ELSE IF p = AliasPath THEN Absent
        ELSE Dir]

Init ==
    /\ imgPc = 0
    /\ layers = <<>>
    /\ \E src \in BOOLEAN : fs = InitFs(src)
    /\ uvicorn \in BOOLEAN
    /\ cwd = Root
    /\ \E dev \in {Unset, "1"} :
          environ = [k \in EnvKeys |->
                        IF k = "CUDA_VISIBLE_DEVICES" THEN dev ELSE Unset]
    /\ pc = [i \in Invocations |-> "idle"]
    /\ fault = [i \in Invocations |-> NoFault]
    /\ sawEntry = [i \in Invocations |-> FALSE]
    /\ children = <<>>
    /\ atCall = [i \in Invocations |-> [ran |-> FALSE, entry |-> Absent]]

\* One method call of the image chain: a new image with one more layer.
ImageCall ==
    /\ imgPc < Len(ImageChain)
    /\ layers' = Append(layers, ImageChain[imgPc + 1])
    /\ imgPc' = imgPc + 1
    /\ UNCHANGED webVars

ImageDefined == imgPc = Len(ImageChain)

Goto(i, l) == pc' = [pc EXCEPT ![i] = l]

Raise(i, e, l) ==
    /\ pc' = [pc EXCEPT ![i] = "faulted"]
    /\ fault' = [fault EXCEPT ![i] = [exc |-> e, at |-> l]]

\* web() is called.
Call(i) ==
    /\ ImageDefined
    /\ pc[i] = "idle"
    /\ Goto(i, "env_model_folder")
    /\ atCall' = [atCall EXCEPT ![i] =
                     [ran |-> \E j \in Invocations : pc[j] = "done",
                      entry |-> fs[AliasPath]]]
    /\ UNCHANGED << imgVars, fs, uvicorn, cwd, environ, fault, sawEntry, children >>

SetEnv(i, at, key, val, next) ==
    /\ pc[i] = at
    /\ environ' = [environ EXCEPT ![key] = val]
    /\ Goto(i, next)
    /\ UNCHANGED << imgVars, fs, uvicorn, cwd, fault, sawEntry, children, atCall >>

SetModelFolder(i) ==
    SetEnv(i, "env_model_folder", "MODEL_FOLDER", "/root/wan_models", "env_config")

SetConfig(i) ==
    SetEnv(i, "env_config", "CONFIG",
           "/root/app/configs/self_forcing_server_14b.yaml", "env_cuda")

SetCudaVisibleDevices(i) ==
    SetEnv(i, "env_cuda", "CUDA_VISIBLE_DEVICES", "0", "env_do_compile")

\* Variant: the compile flag is left as it was found.
SetDoCompileOmitted(i) ==
    SetEnv(i, "env_do_compile", "DO_COMPILE", environ["DO_COMPILE"], "chdir")

SetDoCompile(i) ==
    SetEnv(i, "env_do_compile", "DO_COMPILE", "true", "chdir")

\* Variant: the working directory is not changed.
ChdirSkipped(i) ==
    /\ pc[i] = "chdir"
    /\ Goto(i, "exists")
    /\ UNCHANGED << imgVars, fs, uvicorn, cwd, environ, fault, sawEntry, children, atCall >>

\* os.chdir("/root/app")
Chdir(i) ==
    /\ pc[i] = "chdir"
    /\ IF Follow(fs, AppDir, {})
          THEN /\ cwd' = AppDir
               /\ Goto(i, "exists")
               /\ UNCHANGED fault
          ELSE /\ Raise(i, "FileNotFoundError", "chdir")
               /\ UNCHANGED cwd
    /\ UNCHANGED << imgVars, fs, uvicorn, environ, sawEntry, children, atCall >>

\* if not os.path.exists("checkpoints"):
CheckExists(i) ==
    /\ pc[i] = "exists"
    /\ sawEntry' = [sawEntry EXCEPT ![i] = os_path_exists(fs, cwd, RelCheckpoints)]
    /\ Goto(i, IF sawEntry'[i] THEN "popen" ELSE "symlink")
    /\ UNCHANGED << imgVars, fs, uvicorn, cwd, environ, fault, children, atCall >>

\* Variant: an existing entry is silently replaced (ln -sf).
os_symlink_force(i, target, rel) ==
    /\ fs' = [fs EXCEPT ![Join(cwd, rel)] = Link(target)]
    /\ Goto(i, "popen")
    /\ UNCHANGED fault

\* os.symlink(target, rel): EEXIST when any entry is at the link's path.
os_symlink(i, target, rel) ==
    IF LExists(fs, Join(cwd, rel))
       THEN /\ Raise(i, "FileExistsError", "symlink")
            /\ UNCHANGED fs
       ELSE /\ fs' = [fs EXCEPT ![Join(cwd, rel)] = Link(target)]
            /\ Goto(i, "popen")
            /\ UNCHANGED fault

\* os.symlink("/root/checkpoints", "checkpoints")
Symlink(i) ==
    /\ pc[i] = "symlink"
    /\ os_symlink(i, CheckpointSrc, RelCheckpoints)
    /\ UNCHANGED << imgVars, uvicorn, cwd, environ, sawEntry, children, atCall >>

\* Variant: no spawn when a server launched earlier is still running.
PopenUnlessRunning(i) ==
    /\ pc[i] = "popen"
    /\ IF \E c \in DOMAIN children : children[c].alive
          THEN /\ Goto(i, "return")
               /\ UNCHANGED << fault, children >>
          ELSE IF uvicorn
          THEN /\ children' = Append(children,
                      [by |-> i, argv |-> cmd, env |-> environ, cwd |-> cwd,
                       alias |-> fs[AliasPath], alive |-> TRUE])
               /\ Goto(i, "return")
               /\ UNCHANGED fault
          ELSE /\ Raise(i, "FileNotFoundError", "popen")
               /\ UNCHANGED children
    /\ UNCHANGED << imgVars, fs, uvicorn, cwd, environ, sawEntry, atCall >>

\* subprocess.Popen(cmd): the child inherits the environment and the
\* working directory; the call does not wait for it.
Popen(i) ==
    /\ pc[i] = "popen"
    /\ IF uvicorn
          THEN /\ children' = Append(children,
                      [by |-> i, argv |-> cmd, env |-> environ, cwd |-> cwd,
                       alias |-> fs[AliasPath], alive |-> TRUE])
               /\ Goto(i, "return")
               /\ UNCHANGED fault
          ELSE /\ Raise(i, "FileNotFoundError", "popen")
               /\ UNCHANGED children
    /\ UNCHANGED << imgVars, fs, uvicorn, cwd, environ, sawEntry, atCall >>

\* Variant: the routine waits for its child to exit (subprocess.run).
ReturnAfterWait(i) ==
    /\ pc[i] = "return"
    /\ \A c \in DOMAIN children : children[c].by = i => ~children[c].alive
    /\ Goto(i, "done")
    /\ UNCHANGED << imgVars, fs, uvicorn, cwd, environ, fault, sawEntry, children, atCall >>

\* web() returns to its caller.
Return(i) ==
    /\ pc[i] = "return"
    /\ Goto(i, "done")
    /\ UNCHANGED << imgVars, fs, uvicorn, cwd, environ, fault, sawEntry, children, atCall >>

\* A spawned server process exits on its own; nothing in web() observes it.
ChildExit(c) ==
    /\ c \in DOMAIN children
    /\ children[c].alive
    /\ children' = [children EXCEPT ![c].alive = FALSE]
    /\ UNCHANGED << imgVars, fs, uvicorn, cwd, environ, pc, fault, sawEntry, atCall >>

Next ==
    \/ ImageCall
    \/ \E i \in Invocations : Call(i)
    \/ \E i \in Invocations : SetModelFolder(i)
    \/ \E i \in Invocations : SetConfig(i)
    \/ \E i \in Invocations : SetCudaVisibleDevices(i)
    \/ \E i \in Invocations : SetDoCompile(i)
    \/ \E i \in Invocations : Chdir(i)
    \/ \E i \in Invocations : CheckExists(i)
    \/ \E i \in Invocations : Symlink(i)
    \/ \E i \in Invocations : Popen(i)
    \/ \E i \in Invocations : Return(i)
    \/ \E c \in DOMAIN children : ChildExit(c)

Spec == Init /\ [][Next]_vars

TypeOK ==
    /\ imgPc \in 0..Len(ImageChain)
    /\ cwd \in {Root, AppDir}
    /\ DOMAIN fs = Paths
    /\ Len(children) <= NumInvocations

(***************************************************************************)
(* Properties.                                                             *)
(***************************************************************************)
PastAlias == {"popen", "return", "done"}
Spawned == {"return", "done"}

ChildrenOf(i) == {c \in DOMAIN children : children[c].by = i}

\* C1: an invocation of web() called on an instance where an earlier
\* invocation has already run to completion does not fault at the alias step
\* and finds the entry at /root/app/checkpoints left as it was.
C1_AliasStepIdempotent ==
    \A i \in Invocations :
        (atCall[i].ran /\ pc[i] # "idle") =>
            /\ fault[i].at # "symlink"
            /\ fs[AliasPath] = atCall[i].entry

\* C2: while the checkpoint source directory /root/checkpoints is missing,
\* no invocation of web() gets past the alias step and no server process is
\* spawned.
C2_FailFastOnMissingSource ==
    ~LExists(fs, CheckpointSrc) =>
        /\ children = <<>>
        /\ \A i \in Invocations : pc[i] \notin PastAlias

C4_StateAtSpawn ==
    \A c \in DOMAIN children :
        /\ children[c].env["MODEL_FOLDER"] = "/root/wan_models"
        /\ children[c].env["CONFIG"] = "/root/app/configs/self_forcing_server_14b.yaml"
        /\ children[c].env["CUDA_VISIBLE_DEVICES"] = "0"
        /\ children[c].env["DO_COMPILE"] = "true"
        /\ children[c].argv = << "uvicorn", "release_server:app", "--host",
                                 "0.0.0.0", "--port", "8000", "--log-level",
                                 "info" >>

C4_ServerSpawned ==
    /\ Len(children) > 0
    /\ \E i \in Invocations : pc[i] = "done"

\* C5: every server process was spawned with working directory /root/app
\* and with an entry present at /root/app/checkpoints, and that entry is
\* still there afterwards.
C5_AliasBeforeServing ==
    \A c \in DOMAIN children :
        /\ children[c].cwd = <<"root", "app">>
        /\ children[c].alias.kind # "absent"
        /\ LExists(fs, <<"root", "app", "checkpoints">>)

C5_SpawnedWithAlias ==
    \E c \in DOMAIN children :
        /\ children[c].alias.kind = "link"
        /\ children[c].alive

\* C6: the image's layers are defined in the order base image, system
\* packages, locked dependency sync, flash-attn compile, the three
\* downloads, source snapshot; the snapshot is the last layer.
StepRank(l) ==
    IF l.op = "from_registry" THEN 1
    ELSE IF l.op = "apt_install" THEN 2
    ELSE IF l.op = "uv_sync" THEN 3
    ELSE IF l.op = "pip_install" /\ l.arg = "flash-attn" THEN 4
    ELSE IF l.op = "run_commands" THEN 5
    ELSE IF l.op = "add_local_dir" THEN 6
    ELSE 0

C6_BuildStepOrder ==
    /\ \A a, b \in DOMAIN layers :
          (a < b /\ StepRank(layers[a]) > 0 /\ StepRank(layers[b]) > 0)
              => StepRank(layers[a]) <= StepRank(layers[b])
    /\ ImageDefined =>
          /\ layers[Len(layers)].op = "add_local_dir"
          /\ \A r \in 1..6 : \E a \in DOMAIN layers : StepRank(layers[a]) = r
          /\ Cardinality({a \in DOMAIN layers : StepRank(layers[a]) = 5}) = 3

C6_ImageFullyDefined ==
    /\ ImageDefined
    /\ \E a \in DOMAIN layers : layers[a].arg = "flash-attn"

\* C9: an invocation that passed the existence check and reaches os.symlink
\* when an entry is already at /root/app/checkpoints faults with
\* FileExistsError, changes nothing, stays faulted and never spawns a server.
C9_CheckThenCreateRace ==
    /\ [][\A i \in Invocations :
            (pc[i] = "symlink" /\ LExists(fs, AliasPath) /\ pc'[i] # pc[i]) =>
                /\ pc'[i] = "faulted"
                /\ fault'[i] = [exc |-> "FileExistsError", at |-> "symlink"]
                /\ fs' = fs
                /\ children' = children]_vars
    /\ [][\A i \in Invocations : pc[i] = "faulted" => pc'[i] = "faulted"]_vars
    /\ [](\A i \in Invocations : pc[i] = "faulted" => ChildrenOf(i) = {})

\* Both invocations found no entry although the source directory is there,
\* one created the link, the other faulted on it.
C9_BothPassedCheck ==
    \E i, j \in Invocations :
        /\ i # j
        /\ LExists(fs, CheckpointSrc)
        /\ ~sawEntry[i] /\ ~sawEntry[j]
        /\ pc[i] = "faulted" /\ fault[i] = [exc |-> "FileExistsError", at |-> "symlink"]
        /\ pc[j] \in PastAlias
        /\ ChildrenOf(i) = {}

\* C10: each invocation that went through the spawn step launched exactly
\* one server process, whether or not one was launched before: the number
\* of launched processes equals the number of such invocations.
C10_OneSpawnPerInvocation ==
    /\ \A i \in Invocations :
          Cardinality(ChildrenOf(i)) = (IF pc[i] \in Spawned THEN 1 ELSE 0)
    /\ Len(children) = Cardinality({i \in Invocations : pc[i] \in Spawned})

C10_RespawnedAfterCompletedRun ==
    \E i \in Invocations :
        /\ atCall[i].ran
        /\ pc[i] = "done"
        /\ Len(children) >= 2
        /\ children[1].alive

====
